---- MODULE Spec2Model ----
(***************************************************************************)
(* Host/client worker transport over one SharedArrayBuffer plus a          *)
(* MessagePort.  The host worker (worker-host.ts) writes one message at a  *)
(* time into the shared region and raises the flag word; the client worker *)
(* (worker-client.ts, and its earlier iteration in unnamed/part_001)       *)
(* blocks on the flag word with Atomics.wait, decodes the region, resets   *)
(* the flag and posts an ack on the port.                                  *)
(*                                                                         *)
(* worker-host.ts holds two iterations of the host (lines 1-152 and        *)
(* 154-475); hostRev selects which one a behaviour runs.  clientRev        *)
(* selects the reader: 1 is unnamed/part_001 (one message per write,       *)
(* 8-byte header), 2 is worker-client.ts (batch decode, 16-byte header).   *)
(***************************************************************************)
EXTENDS Integers, Sequences, FiniteSets, TLC

(* ---------------- program constants ---------------- *)

HOST_MTU == 2048

HOST_HEADER_SIZE == 8

BUFFER_SIZE == (((HOST_MTU + HOST_HEADER_SIZE) + 3) \div 4) * 4

CLIENT_MTU == 2048

CLIENT_HEADER_SIZE == 8

MTU == 2048

HEADER_SIZE == 16

MAX_BATCH_SIZE == 10

MAX_BATCH_BYTES == MTU * MAX_BATCH_SIZE

DefaultRate == 100

\* the capacity the specification gives the outbound queue (no host under
\* src/ defines one)
MAX_QUEUE_SIZE == 200

(* ---------------- bounds of the model ---------------- *)

\* number of payloads handed to writeToClient in one behaviour
MaxSends == 3

\* number of startTest requests the host handles in one behaviour
MaxStarts == 1

\* cap of the client's messagesReceived counter
MaxReceived == 600

\* number of payload bytes of the region (from HOST_HEADER_SIZE on) that are
\* tracked; every payload of the model is 0 from this byte on, so every byte
\* of the region above the tracked ones stays 0
WindowLen == 12

\* the burst of sendToClient requests of the back-to-back run, and the length
\* of each of its payloads
BackToBackSends == 25

SmallLen == 100

\* number of init messages the host handles in the runs with a repeated init
MaxInits == 2

\* number of sendToClient requests in the runs with arbitrary port messages
DemuxSends == 2

\* number of control messages the main thread posts to the client worker
MaxControl == 2

\* number of application messages on the port to the host, in flight or
\* handed to the callback, in the runs of the reverse channel
MaxReverse == 3

\* the payloads a sendToClient request may carry
Payloads == { <<0, 2>> }

\* the test messages createTestMessage may produce
TestPayloads == { <<0, 2>> }

\* the messages the setInterval callback of the first iteration may encode
TickPayloads == { <<2>> }

\* the messagesPerSecond a startTest request carries (0: absent or 0; the
\* start request of index.ts carries none)
RateInputs == { 0 }

\* the payload of the back-to-back run: SmallLen bytes, the first one set
SmallPayload == [i \in 1 .. SmallLen |-> IF i = 1 THEN 1 ELSE 0]

\* a payload one byte over the MTU
OversizePayload == [i \in 1 .. HOST_MTU + 1 |-> 0]

\* the payloads of the runs with oversize requests
OversizeInputs == Payloads \cup { OversizePayload }

HostRevs == { 1, 2 }

ClientRevs == { 1, 2 }

(* ---------------- the shared region ---------------- *)

\* byte offsets of the region that the model tracks (offsets 0..3 are the
\* flag word, kept in the variable flag)
TrackedTop == HOST_HEADER_SIZE + WindowLen - 1

Window == 4 .. TrackedTop

ZeroRegion == [o \in Window |-> 0]

ByteAt(r, o) == IF o \in DOMAIN r THEN r[o] ELSE 0

\* DataView.getUint32(off, true)
GetUint32(r, off) ==
    ByteAt(r, off) + 256 * ByteAt(r, off + 1) + 65536 * ByteAt(r, off + 2)
        + 16777216 * ByteAt(r, off + 3)

\* DataView.setUint32(off, v, true)
SetUint32(r, off, v) ==
    [o \in DOMAIN r |->
        IF o = off THEN v % 256
        ELSE IF o = off + 1 THEN (v \div 256) % 256
        ELSE IF o = off + 2 THEN (v \div 65536) % 256
        ELSE IF o = off + 3 THEN (v \div 16777216) % 256
        ELSE r[o]]

\* Uint8Array.set(data, off)
SetBytes(r, data, off) ==
    [o \in DOMAIN r |->
        IF o >= off /\ o < off + Len(data) THEN data[o - off + 1] ELSE r[o]]

\* a copy of sharedArray.subarray(begin, begin + n) in a new Uint8Array(n):
\* subarray clamps at the end of the buffer, the rest of the copy stays 0
CopyOut(r, begin, n) ==
    [i \in 1 .. n |-> IF begin + i - 1 < BUFFER_SIZE THEN ByteAt(r, begin + i - 1) ELSE 0]

(* ---------------- state ---------------- *)

VARIABLES
    hostRev,          \* which iteration of worker-host.ts runs (1 or 2)
    clientRev,        \* which iteration of the client runs (1 or 2)
    sharedArray,      \* host: the region has been allocated (sharedArray !== null)
    messageQueue,     \* host: messageQueue
    messageCallback,  \* host: a message callback is registered
    testRunning,      \* host: testRunning
    testMessageRate,  \* host: testMessageRate
    sendTimers,       \* host: pending setTimeout(sendMessages), each with its closure
    stopTimers,       \* host: pending setTimeout(stopThroughputTest)
    microtasks,       \* host: queued microtasks
    hpc,              \* host: "idle"; "store" between the region stores and the flag
                      \* store; "notify" between the flag store and Atomics.notify
    starts,           \* number of startTest requests handled
    stops,            \* number of stopTest requests handled
    flag,             \* region: the Int32 at byte offset 0
    region,           \* region: the tracked bytes from offset 4 on
    portToClient,     \* MessagePort, host -> client
    portToHost,       \* MessagePort, client -> host
    cpc,              \* client: position of the client worker
    cTestRunning,     \* client: testRunning
    messagesReceived, \* client: messagesReceived
    lastWait,         \* client: waitResult ("pending" until Atomics.wait returns)
                      \* (a local of one loop iteration, as the three below)
    hdrSize,          \* client: messageLength (rev 1) / totalBatchSize (rev 2)
    hdrCount,         \* client: messageCount (rev 2)
    processed,        \* client: processedMessages (rev 2)
                      \* (the three are locals of one loop iteration: 0 and
                      \* empty outside it)
    submitted,        \* history: payloads handed to writeToClient, in call order
    received,         \* history: messages the read loop decoded, in order
    receivedIds,      \* history: for each batch the loop decoded, which call's
                      \* payload the region held (its index in submitted)
    regionId,         \* history: which call's payload the host wrote last
    callbackLog,      \* history: data passed to the host's message callback
    regionWrites,     \* history: number of host writes of header and payload
    flagStores,       \* history: number of host stores of 1 to the flag
    flagResets,       \* history: number of client stores of 0 to the flag
    flagClears,       \* history: number of client stores of 0 that found the
                      \* flag at 1
    acksPosted,       \* history: number of acks the client posted
    acksHandled,      \* history: number of acks the host handled
    ignored,          \* history: number of port messages the host's handler
                      \* took and matched to none of its branches
    drainWrites,      \* history: region writes of the ack path since the last ack
    hdrGen,           \* history: regionWrites when the client read the header
                      \* of the batch it is decoding (0 outside an iteration)
    stopInFlight,     \* history: stopThroughputTest has run while a write of
                      \* the host was not yet acknowledged
    clientInbox       \* control messages the main thread posted to the client
                      \* worker that its message listener has not run for yet

hostVars == << sharedArray, messageQueue, messageCallback, testRunning,
               testMessageRate, sendTimers, stopTimers, microtasks, hpc, starts,
               stops >>

memVars == << flag, region >>

clientVars == << cpc, cTestRunning, messagesReceived, lastWait, hdrSize,
                 hdrCount, processed >>

traceVars == << submitted, received, receivedIds, regionId, callbackLog,
               regionWrites, flagStores, flagResets, flagClears, acksPosted, acksHandled, ignored,
               drainWrites, hdrGen >>

histVars == << traceVars, stopInFlight >>

revVars == << hostRev, clientRev >>

vars == << revVars, clientInbox, hostVars, memVars, portToClient, portToHost, clientVars,
           histVars >>

Init ==
    /\ hostRev \in HostRevs
    /\ clientRev \in ClientRevs
    /\ sharedArray = FALSE
    /\ messageQueue = << >>
    /\ messageCallback = FALSE
    /\ testRunning = FALSE
    /\ testMessageRate = DefaultRate
    /\ sendTimers = << >>
    /\ stopTimers = 0
    /\ microtasks = << >>
    /\ hpc = "idle"
    /\ starts = 0
    /\ stops = 0
    /\ flag = 0
    /\ region = ZeroRegion
    /\ portToClient = << >>
    /\ portToHost = << >>
    /\ cpc = "noPort"
    /\ cTestRunning = FALSE
    /\ messagesReceived = 0
    /\ lastWait = "pending"
    /\ hdrSize = 0
    /\ hdrCount = 0
    /\ processed = << >>
    /\ submitted = << >>
    /\ received = << >>
    /\ receivedIds = << >>
    /\ regionId = 0
    /\ callbackLog = << >>
    /\ regionWrites = 0
    /\ flagStores = 0
    /\ flagResets = 0
    /\ flagClears = 0
    /\ acksPosted = 0
    /\ acksHandled = 0
    /\ ignored = 0
    /\ drainWrites = 0
    /\ hdrGen = 0
    /\ stopInFlight = FALSE
    /\ clientInbox = << >>

(* ---------------- client: pure parts ---------------- *)

\* a read loop that drops the timed-out test and goes on to the header after
\* every return of Atomics.wait
AfterWaitUnchecked(waitResult) == "header"

\* where the read loop goes with the result of Atomics.wait: back to the wait
\* on "timed-out", on to the header otherwise
AfterWait(waitResult) == IF waitResult = "timed-out" THEN "wait" ELSE "header"

\* one iteration of the for loop of the batch reader, at byte offset
\* st.offset: a getUint32 beyond the end of the buffer throws (which leaves
\* the loop for the catch block), an entry longer than the MTU is skipped
\* without its bytes, any other entry is copied out
DecodeStep(r, st) ==
    IF st.offset + 4 > BUFFER_SIZE
    THEN [st EXCEPT !.threw = TRUE]
    ELSE LET messageLength == GetUint32(r, st.offset)
         IN  IF messageLength > MTU
             THEN [st EXCEPT !.offset = st.offset + 4]
             ELSE [st EXCEPT !.offset = st.offset + 4 + messageLength,
                             !.msgs = Append(st.msgs,
                                 CopyOut(r, st.offset + 4, messageLength))]

\* n iterations of the loop from a byte offset above the tracked bytes, where
\* every byte is 0: each iteration reads length 0, copies an empty message and
\* advances by 4, until a read would pass the end of the buffer
DecodeZeros(offset, n) ==
    LET fit == IF offset + 4 > BUFFER_SIZE THEN 0 ELSE (BUFFER_SIZE - offset) \div 4
        k == IF n <= fit THEN n ELSE fit
    IN  [offset |-> offset + 4 * k, msgs |-> [i \in 1 .. k |-> << >>],
         threw |-> n > fit]

\* n iterations of the loop from byte offset, stopping at an exception: the
\* offset reached, the copies made and whether it threw.  The iterations
\* within the tracked bytes are taken one by one, those above them at once.
RECURSIVE DecodeSteps(_, _, _)
DecodeSteps(r, offset, n) ==
    IF n = 0 THEN [offset |-> offset, msgs |-> << >>, threw |-> FALSE]
    ELSE IF offset > TrackedTop THEN DecodeZeros(offset, n)
    ELSE LET first == DecodeStep(r, [offset |-> offset, msgs |-> << >>,
                                     threw |-> FALSE])
         IN  IF first.threw \/ n = 1 THEN first
             ELSE LET rest == DecodeSteps(r, first.offset, n - 1)
                  IN  [offset |-> rest.offset, msgs |-> first.msgs \o rest.msgs,
                       threw |-> rest.threw]

\* for (let i = 0; i < messageCount; i++) from offset HEADER_SIZE: the copies
\* made (processedMessages) and whether the loop threw
DecodeLoop(r, count) == DecodeSteps(r, HEADER_SIZE, count)

\* { type: "ack", ack: true }
AckMsg == [type |-> "ack", data |-> << >>, ack |-> TRUE]

\* a reader that posts its acknowledgment inside the decode loop, once for
\* every message of the batch
AckPerMessage(msgs) == [i \in 1 .. Len(msgs) |-> AckMsg]

\* the acknowledgments posted for one consumed batch of messages msgs
AckMessages(msgs) == << AckMsg >>

\* "Echo: " in UTF-8
EchoPrefix == << 69, 99, 104, 111, 58, 32 >>

\* what the batch reader sends back after a batch: the first message, prefixed
EchoMessages(running, msgs) ==
    IF ~running /\ Len(msgs) > 0
    THEN << [type |-> "toHost", data |-> EchoPrefix \o msgs[1]] >>
    ELSE << >>

(* ---------------- host: pure parts ---------------- *)

\* writeToSharedBuffer(data) on region reg: the new region and the number of
\* writes made (0 when the payload exceeds the MTU and is dropped)
WriteToSharedBuffer(reg, data) ==
    IF Len(data) > HOST_MTU
    THEN [region |-> reg, nwrites |-> 0]
    ELSE [region |-> SetBytes(SetUint32(reg, 4, Len(data)), data, HOST_HEADER_SIZE),
          nwrites |-> 1]

\* event.data.messagesPerSecond || 100
TestRate(input) == IF input = 0 THEN DefaultRate ELSE input

\* a queued microtask: queueMicrotask(processQueue), or
\* queueMicrotask(sendMessages) with the closure's message and rate
PQTask == [kind |-> "processQueue", msg |-> << >>, rate |-> 0]

SMTask(c) == [kind |-> "sendMessages", msg |-> c.msg, rate |-> c.rate]

\* A payload handed to writeToClient is the record [id, data]: data are its
\* bytes, id tells the Uint8Array objects apart (the number of the call).

\* a writeToClient that, after a direct write, schedules processQueue whenever
\* the queue is non-empty, whether or not an unlimited-rate test is running
WriteToClientEagerDrain(rev, q, reg, fl, m, running, rate) ==
    IF fl # 0
    THEN IF rev = 2 /\ running /\ rate = 0
         THEN [queue |-> q, region |-> reg, nwrites |-> 0, wid |-> 0,
               micro |-> << >>]
         ELSE [queue |-> Append(q, m), region |-> reg, nwrites |-> 0, wid |-> 0,
               micro |-> << >>]
    ELSE LET w == WriteToSharedBuffer(reg, m.data)
         IN  [queue |-> q, region |-> w.region, nwrites |-> w.nwrites,
              wid |-> m.id,
              micro |-> IF Len(q) > 0 THEN << PQTask >> ELSE << >>]

\* writeToClient(data), called with the region allocated
WriteToClient(rev, q, reg, fl, m, running, rate) ==
    IF fl # 0
    THEN IF rev = 2 /\ running /\ rate = 0
         THEN [queue |-> q, region |-> reg, nwrites |-> 0, wid |-> 0,
               micro |-> << >>]
         ELSE [queue |-> Append(q, m), region |-> reg, nwrites |-> 0, wid |-> 0,
               micro |-> << >>]
    ELSE LET w == WriteToSharedBuffer(reg, m.data)
         IN  [queue |-> q, region |-> w.region, nwrites |-> w.nwrites,
              wid |-> m.id,
              micro |-> IF rev = 2 /\ running /\ rate = 0 /\ Len(q) > 0
                        THEN << PQTask >> ELSE << >>]

\* a processQueue that sends the head of the queue without loading the flag
ProcessQueueUnchecked(q, reg, fl, running, rate) ==
    IF Len(q) = 0
    THEN [queue |-> q, region |-> reg, nwrites |-> 0, wid |-> 0, micro |-> << >>]
    ELSE LET w == WriteToSharedBuffer(reg, Head(q).data)
         IN  [queue |-> Tail(q), region |-> w.region, nwrites |-> w.nwrites,
              wid |-> Head(q).id,
              micro |-> IF running /\ rate = 0 THEN << PQTask >> ELSE << >>]

\* a processQueue that, once the flag reads 0, writes every queued message in
\* one call instead of the first one only
ProcessQueueDrainAll(q, reg, fl, running, rate) ==
    IF Len(q) = 0 \/ fl # 0
    THEN [queue |-> q, region |-> reg, nwrites |-> 0, wid |-> 0, micro |-> << >>]
    ELSE LET after[k \in 0 .. Len(q)] ==
                 IF k = 0 THEN reg
                 ELSE WriteToSharedBuffer(after[k - 1], q[k].data).region
         IN  [queue |-> << >>, region |-> after[Len(q)], nwrites |-> Len(q),
              wid |-> q[Len(q)].id,
              micro |-> IF running /\ rate = 0 THEN << PQTask >> ELSE << >>]

\* processQueue() of the second iteration
ProcessQueue(q, reg, fl, running, rate) ==
    IF Len(q) = 0
    THEN [queue |-> q, region |-> reg, nwrites |-> 0, wid |-> 0, micro |-> << >>]
    ELSE IF fl = 0
         THEN LET w == WriteToSharedBuffer(reg, Head(q).data)
              IN  [queue |-> Tail(q), region |-> w.region, nwrites |-> w.nwrites,
                   wid |-> Head(q).id,
                   micro |-> IF running /\ rate = 0
                             THEN << PQTask >> ELSE << >>]
         ELSE [queue |-> q, region |-> reg, nwrites |-> 0, wid |-> 0,
               micro |-> << >>]

\* the ack branch of handleClientMessage: the first iteration sends the next
\* queued message without looking at the flag, the second calls processQueue
AckDrain(rev, q, reg, fl, running, rate) ==
    IF rev = 1
    THEN IF Len(q) > 0
         THEN LET w == WriteToSharedBuffer(reg, Head(q).data)
              IN  [queue |-> Tail(q), region |-> w.region, nwrites |-> w.nwrites,
                   wid |-> Head(q).id, micro |-> << >>]
         ELSE [queue |-> q, region |-> reg, nwrites |-> 0, wid |-> 0,
               micro |-> << >>]
    ELSE ProcessQueue(q, reg, fl, running, rate)

\* the host's state after a step whose writes are those of r
\* (mq: the microtasks left to run before it)
HostWroteFrom(r, mq) ==
    /\ messageQueue' = r.queue
    /\ region' = r.region
    /\ regionWrites' = regionWrites + r.nwrites
    /\ regionId' = IF r.nwrites > 0 THEN r.wid ELSE regionId
    /\ hpc' = IF r.nwrites > 0 THEN "store" ELSE "idle"
    /\ microtasks' = mq \o r.micro

HostWrote(r) == HostWroteFrom(r, microtasks)

\* the host's event loop takes a new task
HostIdle == hpc = "idle" /\ microtasks = << >>

(* ---------------- host: actions ---------------- *)

\* main thread posts init with port1 (once); the host allocates the region,
\* zeroes the flag and posts the region to the client
HostInit ==
    /\ HostIdle
    /\ ~sharedArray
    /\ sharedArray' = TRUE
    /\ flag' = 0
    /\ region' = ZeroRegion
    /\ portToClient' = Append(portToClient, [type |-> "sharedBuffer"])
    /\ UNCHANGED << revVars, clientInbox, messageQueue, messageCallback, testRunning,
                    testMessageRate, sendTimers, stopTimers, microtasks, hpc,
                    starts, stops, portToHost, clientVars, histVars >>

\* a sendToClient request: writeToClient(data) (limit: how many payloads the
\* behaviour may hand to writeToClient)
HostSendUpTo(data, limit) ==
    /\ HostIdle
    /\ sharedArray
    /\ Len(submitted) < limit
    /\ HostWrote(WriteToClient(hostRev, messageQueue, region, flag,
                               [id |-> Len(submitted) + 1, data |-> data],
                               testRunning, testMessageRate))
    /\ submitted' = Append(submitted, data)
    /\ UNCHANGED << revVars, clientInbox, sharedArray, messageCallback, testRunning,
                    testMessageRate, sendTimers, stopTimers, starts, stops, flag,
                    portToClient, portToHost, clientVars, received, receivedIds, callbackLog, stopInFlight,
                    flagStores, flagResets, flagClears, acksPosted, acksHandled, ignored, drainWrites,
                    hdrGen >>

HostSendToClient(data) == HostSendUpTo(data, MaxSends)

\* first iteration: the setInterval callback armed by init sends a message
HostIntervalTick(data) ==
    /\ hostRev = 1
    /\ HostIdle
    /\ sharedArray
    /\ Len(submitted) < MaxSends
    /\ HostWrote(WriteToClient(hostRev, messageQueue, region, flag,
                               [id |-> Len(submitted) + 1, data |-> data],
                               testRunning, testMessageRate))
    /\ submitted' = Append(submitted, data)
    /\ UNCHANGED << revVars, clientInbox, sharedArray, messageCallback, testRunning,
                    testMessageRate, sendTimers, stopTimers, starts, stops, flag,
                    portToClient, portToHost, clientVars, received, receivedIds, callbackLog, stopInFlight,
                    flagStores, flagResets, flagClears, acksPosted, acksHandled, ignored, drainWrites,
                    hdrGen >>

\* one run of the sendMessages closure c = [msg, rate] of startThroughputTest:
\* the writes it makes, and the timer or microtask it schedules for its next
\* run (id: the number of the writeToClient call it makes)
SendMessages(c, id, q, reg, fl, running, rate, allocated) ==
    LET none == [queue |-> q, region |-> reg, nwrites |-> 0, wid |-> 0,
                 micro |-> << >>, timers |-> << >>, sent |-> << >>]
        w == IF allocated
             THEN WriteToClient(2, q, reg, fl, [id |-> id, data |-> c.msg],
                                running, rate)
             ELSE [queue |-> q, region |-> reg, nwrites |-> 0, wid |-> 0,
                   micro |-> << >>]
        snt == IF allocated THEN << c.msg >> ELSE << >>
    IN  IF ~running THEN none
        ELSE IF c.rate = 0
             THEN IF fl # 0
                  THEN [none EXCEPT !.micro = << SMTask(c) >>]
                  ELSE [queue |-> w.queue, region |-> w.region,
                        nwrites |-> w.nwrites, wid |-> w.wid,
                        micro |-> w.micro \o << SMTask(c) >>,
                        timers |-> << >>, sent |-> snt]
             ELSE [queue |-> w.queue, region |-> w.region, nwrites |-> w.nwrites,
                   wid |-> w.wid, micro |-> w.micro, timers |-> << c >>,
                   sent |-> snt]

\* a startTest request: startThroughputTest(messageSize, messagesPerSecond || 100)
\* with a fresh random test message, then the auto-stop timer; the page sends
\* a start request only when it has stopped the test before
HostStartTest(data, rateInput) ==
    /\ hostRev = 2
    /\ HostIdle
    /\ starts < MaxStarts
    /\ starts = stops
    /\ Len(submitted) < MaxSends
    /\ starts' = starts + 1
    /\ stopTimers' = stopTimers + 1
    /\ IF testRunning
       THEN UNCHANGED << messageQueue, region, regionWrites, regionId, hpc, microtasks,
                         testRunning, testMessageRate, sendTimers, submitted >>
       ELSE LET c == [msg |-> data, rate |-> TestRate(rateInput)]
                r == SendMessages(c, Len(submitted) + 1, messageQueue, region,
                                  flag, TRUE, c.rate, sharedArray)
            IN  /\ testRunning' = TRUE
                /\ testMessageRate' = c.rate
                /\ HostWrote(r)
                /\ sendTimers' = sendTimers \o r.timers
                /\ submitted' = submitted \o r.sent
    /\ UNCHANGED << revVars, clientInbox, sharedArray, messageCallback, stops, flag, portToClient,
                    portToHost, clientVars, received, receivedIds, callbackLog, stopInFlight, flagStores,
                    flagResets, flagClears, acksPosted, acksHandled, ignored, drainWrites, hdrGen >>

RemoveAt(sq, i) == SubSeq(sq, 1, i - 1) \o SubSeq(sq, i + 1, Len(sq))

\* a pending setTimeout(sendMessages, intervalMs) fires
HostSendMessages(i) ==
    /\ hostRev = 2
    /\ HostIdle
    /\ i \in 1 .. Len(sendTimers)
    /\ testRunning => Len(submitted) < MaxSends
    /\ LET r == SendMessages(sendTimers[i], Len(submitted) + 1, messageQueue,
                             region, flag, testRunning, testMessageRate,
                             sharedArray)
       IN  /\ HostWrote(r)
           /\ sendTimers' = RemoveAt(sendTimers, i) \o r.timers
           /\ submitted' = submitted \o r.sent
    /\ UNCHANGED << revVars, clientInbox, sharedArray, messageCallback, testRunning,
                    testMessageRate, stopTimers, starts, stops, flag, portToClient,
                    portToHost, clientVars, received, receivedIds, callbackLog, stopInFlight, flagStores,
                    flagResets, flagClears, acksPosted, acksHandled, ignored, drainWrites, hdrGen >>

\* stopThroughputTest(): leave test mode and clear the queue
StopThroughputTest ==
    /\ testRunning' = FALSE
    /\ messageQueue' = << >>

\* a stop handler that also frees the region: it stores 0 to the flag word
HostStopTestClearingFlag ==
    /\ hostRev = 2
    /\ HostIdle
    /\ stops < starts
    /\ stops' = stops + 1
    /\ StopThroughputTest
    /\ flag' = 0
    /\ stopInFlight' = (stopInFlight \/ flag = 1)
    /\ UNCHANGED << revVars, clientInbox, sharedArray, messageCallback, testMessageRate,
                    sendTimers, stopTimers, microtasks, hpc, starts, region,
                    portToClient, portToHost, clientVars, traceVars >>

\* a stopTest request; the page sends one for a test it started
HostStopTest ==
    /\ hostRev = 2
    /\ HostIdle
    /\ stops < starts
    /\ stops' = stops + 1
    /\ StopThroughputTest
    /\ stopInFlight' = (stopInFlight \/ flag = 1)
    /\ UNCHANGED << revVars, clientInbox, sharedArray, messageCallback, testMessageRate,
                    sendTimers, stopTimers, microtasks, hpc, starts, memVars,
                    portToClient, portToHost, clientVars, traceVars >>

\* the auto-stop timer of a startTest request fires
HostAutoStop ==
    /\ hostRev = 2
    /\ HostIdle
    /\ stopTimers > 0
    /\ stopTimers' = stopTimers - 1
    /\ StopThroughputTest
    /\ stopInFlight' = (stopInFlight \/ flag = 1)
    /\ UNCHANGED << revVars, clientInbox, sharedArray, messageCallback, testMessageRate,
                    sendTimers, microtasks, hpc, starts, stops, memVars, portToClient,
                    portToHost, clientVars, traceVars >>

\* a handleClientMessage that takes every message tagged "ack" for an ack,
\* whatever its ack field holds
HostHandleByTagOnly ==
    /\ HostIdle
    /\ sharedArray
    /\ Len(portToHost) > 0
    /\ portToHost' = Tail(portToHost)
    /\ LET m == Head(portToHost)
       IN  IF m.type = "toHost"
           THEN /\ callbackLog' = IF messageCallback
                                  THEN Append(callbackLog, m.data)
                                  ELSE callbackLog
                /\ UNCHANGED << messageQueue, region, regionWrites, regionId, hpc,
                                microtasks, acksHandled, ignored, drainWrites >>
           ELSE IF m.type = "ack"
           THEN LET r == AckDrain(hostRev, messageQueue, region, flag,
                                  testRunning, testMessageRate)
                IN  /\ HostWrote(r)
                    /\ acksHandled' = acksHandled + 1
                    /\ drainWrites' = r.nwrites
                    /\ UNCHANGED << callbackLog, ignored >>
           ELSE /\ ignored' = ignored + 1
                /\ UNCHANGED << messageQueue, region, regionWrites, regionId, hpc,
                                microtasks, acksHandled, drainWrites, callbackLog >>
    /\ UNCHANGED << revVars, clientInbox, sharedArray, messageCallback, testRunning,
                    testMessageRate, sendTimers, stopTimers, starts, stops, flag,
                    portToClient, clientVars, submitted, received, receivedIds, flagStores,
                    flagResets, flagClears, acksPosted, hdrGen, stopInFlight >>

\* handleClientMessage(event) for the next message of the port: a message
\* tagged "toHost" goes to the callback, one tagged "ack" whose ack field is
\* true drains the queue, any other message is ignored
HostHandleClientMessage ==
    /\ HostIdle
    /\ sharedArray
    /\ Len(portToHost) > 0
    /\ portToHost' = Tail(portToHost)
    /\ LET m == Head(portToHost)
       IN  IF m.type = "toHost"
           THEN /\ callbackLog' = IF messageCallback
                                  THEN Append(callbackLog, m.data)
                                  ELSE callbackLog
                /\ UNCHANGED << messageQueue, region, regionWrites, regionId, hpc,
                                microtasks, acksHandled, ignored, drainWrites >>
           ELSE IF m.type = "ack" /\ m.ack = TRUE
           THEN LET r == AckDrain(hostRev, messageQueue, region, flag,
                                  testRunning, testMessageRate)
                IN  /\ HostWrote(r)
                    /\ acksHandled' = acksHandled + 1
                    /\ drainWrites' = r.nwrites
                    /\ UNCHANGED << callbackLog, ignored >>
           ELSE /\ ignored' = ignored + 1
                /\ UNCHANGED << messageQueue, region, regionWrites, regionId, hpc,
                                microtasks, acksHandled, drainWrites, callbackLog >>
    /\ UNCHANGED << revVars, clientInbox, sharedArray, messageCallback, testRunning,
                    testMessageRate, sendTimers, stopTimers, starts, stops, flag,
                    portToClient, clientVars, submitted, received, receivedIds, flagStores,
                    flagResets, flagClears, acksPosted, hdrGen, stopInFlight >>

\* the running host task goes on: Atomics.store(int32View, 0, 1) after the
\* region stores of writeToSharedBuffer (Atomics.notify is the next call, a
\* step of its own: the client runs in parallel on the same memory); or else
\* the next queued microtask
HostContinue ==
    /\ (hpc = "store" \/ (hpc = "idle" /\ microtasks # << >>))
    /\ IF hpc = "store"
       THEN /\ flag' = 1
            /\ flagStores' = flagStores + 1
            /\ hpc' = "notify"
            /\ UNCHANGED << cpc, lastWait >>
            /\ UNCHANGED << messageQueue, region, regionWrites, regionId, microtasks,
                            sendTimers, submitted, drainWrites >>
       ELSE LET t == Head(microtasks)
            IN  IF t.kind = "processQueue"
                THEN LET r == ProcessQueue(messageQueue, region, flag,
                                           testRunning, testMessageRate)
                     IN  /\ HostWroteFrom(r, Tail(microtasks))
                         /\ drainWrites' = drainWrites + r.nwrites
                         /\ UNCHANGED << flag, flagStores, cpc, lastWait,
                                         sendTimers, submitted >>
                ELSE LET r == SendMessages(t, Len(submitted) + 1, messageQueue,
                                           region, flag, testRunning,
                                           testMessageRate, sharedArray)
                     IN  /\ HostWroteFrom(r, Tail(microtasks))
                         /\ sendTimers' = sendTimers \o r.timers
                         /\ submitted' = submitted \o r.sent
                         /\ UNCHANGED << flag, flagStores, cpc, lastWait,
                                         drainWrites >>
    /\ UNCHANGED << revVars, clientInbox, sharedArray, messageCallback, testRunning,
                    testMessageRate, stopTimers, starts, stops, portToClient,
                    portToHost, cTestRunning, messagesReceived, hdrSize,
                    hdrCount, processed, received, receivedIds, callbackLog, stopInFlight, flagResets, flagClears,
                    acksPosted, acksHandled, ignored, hdrGen >>

\* Atomics.notify(int32View, 0, 1) of writeToSharedBuffer: wakes the client if
\* it is blocked in Atomics.wait at this moment, whatever the flag word holds
\* by now; wakes nobody otherwise
HostNotify ==
    /\ hpc = "notify"
    /\ hpc' = "idle"
    /\ IF cpc = "blocked"
       THEN cpc' = AfterWait("ok") /\ lastWait' = "ok"
       ELSE UNCHANGED << cpc, lastWait >>
    /\ UNCHANGED << revVars, clientInbox, sharedArray, messageQueue, messageCallback,
                    testRunning, testMessageRate, sendTimers, stopTimers,
                    microtasks, starts, stops, memVars, portToClient, portToHost,
                    cTestRunning, messagesReceived, hdrSize, hdrCount, processed,
                    histVars >>

(* ---------------- client: actions ---------------- *)

\* main thread posts init with port2
ClientInit ==
    /\ cpc = "noPort"
    /\ cpc' = "idle"
    /\ UNCHANGED << revVars, clientInbox, hostVars, memVars, portToClient, portToHost,
                    cTestRunning, messagesReceived, lastWait, hdrSize, hdrCount,
                    processed, histVars >>

\* a startTest request, handled while the client's event loop still runs
ClientStartTest ==
    /\ cpc \in { "noPort", "idle" }
    /\ ~cTestRunning
    /\ cTestRunning' = TRUE
    /\ messagesReceived' = 0
    /\ UNCHANGED << revVars, clientInbox, hostVars, memVars, portToClient, portToHost, cpc,
                    lastWait, hdrSize, hdrCount, processed, histVars >>

\* a stopTest request, handled while the client's event loop still runs
ClientStopTest ==
    /\ cpc \in { "noPort", "idle" }
    /\ cTestRunning
    /\ cTestRunning' = FALSE
    /\ UNCHANGED << revVars, clientInbox, hostVars, memVars, portToClient, portToHost, cpc,
                    messagesReceived, lastWait, hdrSize, hdrCount, processed,
                    histVars >>

\* a client that enters its read loop from init, without waiting for the
\* sharedBuffer message
ClientStartsLoopEarly ==
    /\ cpc = "idle"
    /\ cpc' = "wait"
    /\ UNCHANGED << revVars, clientInbox, hostVars, memVars, portToClient, portToHost,
                    cTestRunning, messagesReceived, lastWait, hdrSize, hdrCount,
                    processed, histVars >>

\* handleHostMessage for the sharedBuffer message: store the buffer and enter
\* the read loop, which never returns to the event loop
ClientHandleSharedBuffer ==
    /\ cpc = "idle"
    /\ Len(portToClient) > 0
    /\ Head(portToClient).type = "sharedBuffer"
    /\ portToClient' = Tail(portToClient)
    /\ cpc' = "wait"
    /\ UNCHANGED << revVars, clientInbox, hostVars, memVars, portToHost, cTestRunning,
                    messagesReceived, lastWait, hdrSize, hdrCount, processed,
                    histVars >>

\* Atomics.wait(int32Array, 0, 0, MAX_WAIT_TIME) is called: it returns
\* "not-equal" at once when the flag is not 0, and blocks otherwise
ClientWaitCall ==
    /\ cpc = "wait"
    /\ IF flag # 0
       THEN cpc' = AfterWait("not-equal") /\ lastWait' = "not-equal"
       ELSE cpc' = "blocked" /\ lastWait' = "pending"
    /\ UNCHANGED << revVars, clientInbox, hostVars, memVars, portToClient, portToHost,
                    cTestRunning, messagesReceived, hdrSize, hdrCount, processed,
                    histVars >>

\* the blocked wait times out
ClientWaitTimeout ==
    /\ cpc = "blocked"
    /\ lastWait' = "timed-out"
    /\ cpc' = AfterWait("timed-out")
    /\ UNCHANGED << revVars, clientInbox, hostVars, memVars, portToClient, portToHost,
                    cTestRunning, messagesReceived, hdrSize, hdrCount, processed,
                    histVars >>

\* the header reads: messageLength at offset 4 (rev 1); totalBatchSize at
\* offset 4 and messageCount at offset 8 (rev 2)
ClientReadHeader ==
    /\ cpc = "header"
    /\ hdrSize' = GetUint32(region, 4)
    /\ hdrCount' = IF clientRev = 2 THEN GetUint32(region, 8) ELSE 0
    /\ hdrGen' = regionWrites
    /\ cpc' = "decode"
    /\ UNCHANGED << revVars, clientInbox, hostVars, memVars, portToClient, portToHost,
                    cTestRunning, messagesReceived, lastWait, processed,
                    submitted, received, receivedIds, callbackLog, stopInFlight, regionWrites, regionId, flagStores,
                    flagResets, flagClears, acksPosted, acksHandled, ignored, drainWrites >>

\* the size check and the payload reads.  Rev 1 takes a view of
\* [CLIENT_HEADER_SIZE, CLIENT_HEADER_SIZE + messageLength); received records
\* the bytes the view shows when it is made.  Rev 2 runs the decode loop; an
\* exception in it goes to the catch block and from there to the next wait.
\* The counter is followed up to MaxReceived: a batch is delivered only while
\* the counter stays within it, and a pass that throws holds it there.
ClientDecode ==
    /\ cpc = "decode"
    /\ IF clientRev = 1
       THEN IF hdrSize > CLIENT_MTU
            THEN /\ flag' = 0
                 /\ flagResets' = flagResets + 1
                 /\ flagClears' = IF flag = 1 THEN flagClears + 1 ELSE flagClears
                 /\ cpc' = "wait"
                 /\ hdrSize' = 0
                 /\ hdrGen' = 0
                 /\ UNCHANGED << received, receivedIds, processed, messagesReceived, hdrCount >>
            ELSE /\ received' = Append(received,
                                       CopyOut(region, CLIENT_HEADER_SIZE, hdrSize))
                 /\ receivedIds' = Append(receivedIds, regionId)
                 /\ cpc' = "reset"
                 /\ UNCHANGED << flag, flagResets, flagClears, processed, messagesReceived,
                                 hdrSize, hdrCount, hdrGen >>
       ELSE IF hdrSize > MAX_BATCH_BYTES
            THEN /\ flag' = 0
                 /\ flagResets' = flagResets + 1
                 /\ flagClears' = IF flag = 1 THEN flagClears + 1 ELSE flagClears
                 /\ cpc' = "wait"
                 /\ hdrSize' = 0
                 /\ hdrCount' = 0
                 /\ hdrGen' = 0
                 /\ UNCHANGED << received, receivedIds, processed, messagesReceived >>
            ELSE LET d == DecodeLoop(region, hdrCount)
                 IN  /\ d.threw \/ messagesReceived + Len(d.msgs) <= MaxReceived
                     /\ messagesReceived' =
                           IF messagesReceived + Len(d.msgs) <= MaxReceived
                           THEN messagesReceived + Len(d.msgs)
                           ELSE MaxReceived
                     /\ IF d.threw
                        THEN /\ cpc' = "wait"
                             /\ hdrSize' = 0
                             /\ hdrCount' = 0
                             /\ hdrGen' = 0
                             /\ UNCHANGED << received, receivedIds, processed >>
                        ELSE /\ cpc' = "reset"
                             /\ processed' = d.msgs
                             /\ received' = received \o d.msgs
                             /\ receivedIds' = Append(receivedIds, regionId)
                             /\ UNCHANGED << hdrSize, hdrCount, hdrGen >>
                     /\ UNCHANGED << flag, flagResets, flagClears >>
    /\ lastWait' = IF cpc' = "wait" THEN "pending" ELSE lastWait
    /\ UNCHANGED << revVars, clientInbox, hostVars, region, portToClient, portToHost,
                    cTestRunning, submitted, callbackLog, stopInFlight, regionWrites, regionId,
                    flagStores, acksPosted, acksHandled, ignored, drainWrites >>

\* Atomics.store(int32Array, 0, 0) after the batch
ClientReset ==
    /\ cpc = "reset"
    /\ flag' = 0
    /\ flagResets' = flagResets + 1
    /\ flagClears' = IF flag = 1 THEN flagClears + 1 ELSE flagClears
    /\ cpc' = "ack"
    /\ UNCHANGED << revVars, clientInbox, hostVars, region, portToClient, portToHost,
                    cTestRunning, messagesReceived, lastWait, hdrSize, hdrCount,
                    processed, submitted, received, receivedIds, callbackLog, stopInFlight, regionWrites, regionId,
                    flagStores, acksPosted, acksHandled, ignored, drainWrites, hdrGen >>

\* port.postMessage({type: "ack", ack: true}) and the rest of the iteration:
\* rev 1 counts the message (its echo then fails on an undefined name and the
\* catch block swallows it); rev 2 echoes the first message outside test mode
ClientAck ==
    /\ cpc = "ack"
    /\ LET acks == AckMessages(processed)
           echo == IF clientRev = 2 THEN EchoMessages(cTestRunning, processed)
                   ELSE << >>
       IN  /\ portToHost' = portToHost \o acks \o echo
           /\ acksPosted' = acksPosted + Len(acks)
    /\ messagesReceived' = IF clientRev = 1 THEN messagesReceived + 1
                           ELSE messagesReceived
    /\ processed' = << >>
    /\ hdrSize' = 0
    /\ hdrCount' = 0
    /\ hdrGen' = 0
    /\ lastWait' = "pending"
    /\ cpc' = "wait"
    /\ UNCHANGED << revVars, clientInbox, hostVars, memVars, portToClient, cTestRunning,
                    submitted, received, receivedIds, callbackLog, stopInFlight, regionWrites, regionId,
                    flagStores, flagResets, flagClears, acksHandled, ignored, drainWrites >>

(* ---------------- specification ---------------- *)

Next ==
    \/ HostInit
    \/ \E data \in Payloads : HostSendToClient(data)
    \/ \E data \in TickPayloads : HostIntervalTick(data)
    \/ \E data \in TestPayloads, rateInput \in RateInputs :
          HostStartTest(data, rateInput)
    \/ \E i \in 1 .. Len(sendTimers) : HostSendMessages(i)
    \/ HostStopTest
    \/ HostAutoStop
    \/ HostHandleClientMessage
    \/ HostContinue
    \/ HostNotify
    \/ ClientInit
    \/ ClientStartTest
    \/ ClientStopTest
    \/ ClientHandleSharedBuffer
    \/ ClientWaitCall
    \/ ClientWaitTimeout
    \/ ClientReadHeader
    \/ ClientDecode
    \/ ClientReset
    \/ ClientAck

Spec == Init /\ [][Next]_vars

(* ---------------- properties ---------------- *)

\* stopThroughputTest has not run
NoStop == stops = 0 /\ stopTimers = starts

AcksInFlight == { i \in 1 .. Len(portToHost) : portToHost[i].type = "ack" }

\* nothing is in flight: the host is idle with an empty queue, the region is
\* free, the client is at its wait and every ack has been handled
Quiescent ==
    /\ hpc = "idle"
    /\ microtasks = << >>
    /\ messageQueue = << >>
    /\ flag = 0
    /\ cpc \in { "wait", "blocked" }
    /\ AcksInFlight = { }

NoDuplicates(sq) == \A i, j \in 1 .. Len(sq) : sq[i] = sq[j] => i = j

\* no payload is read after a payload submitted later than it
InOrder(sq) == \A i, j \in 1 .. Len(sq) : i < j => sq[i] <= sq[j]

\* C1: while no stop has occurred, every payload handed to writeToClient is
\* received by the read loop exactly once: no payload is received twice, and
\* once nothing is in flight any more every payload has been received.
C1_ExactlyOnce ==
    NoStop =>
        /\ NoDuplicates(receivedIds)
        /\ Quiescent => Len(receivedIds) = Len(submitted)

\* C2: payloads are read in the order of their writeToClient calls.
C2_OrderPreserved == NoStop => InOrder(receivedIds)

\* C3: the host stores header or payload bytes into the region, or 1 into the
\* flag word, only while the flag word is 0.
C3_HostWritesOnlyWhenFree ==
    [][(regionWrites' # regionWrites \/ flagStores' # flagStores) => flag = 0]_vars

\* C4: the flag word is 0 or 1, and it is 1 exactly when one batch that the
\* host has published is resident and not yet consumed by the client.
C4_FlagIffOneResident ==
    /\ flag \in { 0, 1 }
    /\ flag = 1 <=> flagStores - flagResets = 1

C6_ClientReadsOnlyWhenFull ==
    cpc \in { "header", "decode", "reset" } =>
        flag = 1 /\ lastWait \in { "ok", "not-equal" }

\* C7: one ack is posted per batch the client consumes (per reset of the flag
\* word), whatever the number of messages of the batch.
C7_OneAckPerBatch ==
    acksPosted = flagResets - (IF cpc = "ack" THEN 1 ELSE 0)

C7_Witness ==
    clientRev = 2 /\ acksPosted = 2 /\ flagResets = 2 /\ cpc = "blocked"

\* C8: every host write is followed by one ack of its own: once nothing is in
\* flight any more, the host has handled as many acks as it has made writes.
C8_EachWriteAcked == (NoStop /\ Quiescent) => acksHandled = flagStores

Decoded ==
    IF clientRev = 2 THEN processed ELSE << received[Len(received)] >>

\* C10: what the read loop decodes from the region is the list of payloads
\* the host wrote into it, byte for byte.
C10_RoundTrip ==
    (cpc = "reset" /\ hpc = "idle" /\ hdrGen = regionWrites) =>
        Decoded = << submitted[regionId] >>

\* the batch a host write places in the region: writeToSharedBuffer takes one
\* payload per call
ResidentBatch == << submitted[regionId] >>

RECURSIVE PayloadBytes(_)
PayloadBytes(batch) ==
    IF batch = << >> THEN 0 ELSE Len(Head(batch)) + PayloadBytes(Tail(batch))

\* C11: a batch the host has published holds at most MAX_BATCH_SIZE messages
\* and MAX_BATCH_BYTES payload bytes, and its header states exactly those
\* values: the payload byte count at offset 4, the message count at offset 8.
C11_BatchWithinLimits ==
    (flag = 1 /\ hpc # "store" /\ regionId > 0) =>
        /\ Len(ResidentBatch) <= MAX_BATCH_SIZE
        /\ PayloadBytes(ResidentBatch) <= MAX_BATCH_BYTES
        /\ GetUint32(region, 4) = PayloadBytes(ResidentBatch)
        /\ GetUint32(region, 8) = Len(ResidentBatch)

\* C15: when the blocked Atomics.wait returns while the flag word is 0, the
\* read loop goes back to the wait: it reads no header, decodes nothing,
\* stores nothing to the flag word and posts no ack.
C15_WakeAtZeroWaitsAgain ==
    [][(cpc = "blocked" /\ cpc' # "blocked" /\ flag' = 0) => cpc' = "wait"]_vars

\* C16: once stopThroughputTest has run while a write of the host was
\* resident and unacknowledged, the host writes the region no more and makes
\* no further store of 1 to the flag word, whatever ack, timer or request it
\* handles afterwards.
C16_NoWriteAfterStop ==
    [][stopInFlight =>
          (regionWrites' = regionWrites /\ flagStores' = flagStores)]_vars

\* C17: every change of the flag word from 0 to 1 is the host's store in
\* writeToSharedBuffer, a step that leaves the client's state alone; every
\* change from 1 to 0 is a store of the client's read loop, a step that leaves
\* the host's state alone.
C17_SingleOwner ==
    [][/\ (flag = 0 /\ flag' = 1) =>
              (hpc = "store" /\ hpc' = "notify" /\ UNCHANGED clientVars)
       /\ (flag = 1 /\ flag' = 0) =>
              (cpc \in { "decode", "reset" } /\ UNCHANGED hostVars)]_vars

C17_Witness == hostRev = 2 /\ stops = 1 /\ flagStores = 2 /\ flagResets = 2

\* C20: when the blocked Atomics.wait times out, the read loop goes back to
\* the wait and the step changes nothing else: the flag word, the region, the
\* counter and the port to the host are as before, nothing is delivered and
\* no ack is posted.
C20_TimeoutNoEffect ==
    [][(cpc = "blocked" /\ lastWait' = "timed-out") =>
          /\ cpc' = "wait"
          /\ UNCHANGED << flag, region, messagesReceived, portToHost, received,
                          acksPosted, flagResets >>]_vars

C20_Witness ==
    lastWait = "timed-out" /\ cpc = "wait" /\ acksPosted = 1 /\ flag = 0

\* the messages the read loop holds once it has reset the flag word: the
\* copies it made (rev 2), or what its view of the region shows now (rev 1)
HeldMessages ==
    IF clientRev = 2 THEN processed
    ELSE << CopyOut(region, CLIENT_HEADER_SIZE, hdrSize) >>

\* C21: the messages the read loop holds after it has reset the flag word to
\* 0 are owned copies: their bytes are those it decoded before the reset,
\* even when the host has written the region again since.
C21_OwnedCopies ==
    (cpc = "ack" /\ received # << >>) =>
        HeldMessages = (IF clientRev = 2 THEN processed
                        ELSE << received[Len(received)] >>)

\* C24: the client is in its read loop only after the host has allocated the
\* region and the client has taken the sharedBuffer message from the port;
\* before the host has allocated the region it has written nothing: the
\* region and the flag word are untouched and the queue is empty, whatever
\* requests it has handled.
C24_HandshakeOrder ==
    /\ cpc \notin { "noPort", "idle" } => (sharedArray /\ portToClient = << >>)
    /\ ~sharedArray =>
          /\ regionWrites = 0
          /\ flagStores = 0
          /\ flag = 0
          /\ region = ZeroRegion
          /\ messageQueue = << >>

C24_Witness ==
    /\ sharedArray
    /\ starts = 1
    /\ sendTimers # << >>
    /\ regionWrites = 0
    /\ cpc = "blocked"

\* a step that moves the head of the host's queue into the region
QueueDrained ==
    /\ messageQueue # << >>
    /\ messageQueue' = Tail(messageQueue)
    /\ regionWrites' = regionWrites + 1

C28_ProcessQueueNoOp ==
    [][(/\ hostRev = 2
        /\ acksHandled' = acksHandled + 1
        /\ (messageQueue = << >> \/ flag # 0))
          => /\ UNCHANGED << messageQueue, region, flag >>
             /\ regionWrites' = regionWrites
             /\ hpc' = "idle"]_vars

C28_Witness ==
    /\ hostRev = 2
    /\ acksHandled = 1
    /\ drainWrites = 0
    /\ regionWrites = 2
    /\ Len(messageQueue) = 1
    /\ flag = 1
    /\ hpc = "idle"

\* a writeToClient call whose payload went straight into the region
DirectWrite ==
    /\ Len(submitted') = Len(submitted) + 1
    /\ regionWrites' = regionWrites + 1

\* C30: writeToClient writes a new payload straight into the region only when
\* the host's queue is empty.
C30_DirectWriteOnlyIfQueueEmpty == [][DirectWrite => messageQueue = << >>]_vars

\* C32: the client posts an ack only after it has reset the flag word for
\* the batch it acknowledges: the acks posted are never more than the
\* transitions of the flag word from 1 to 0.
C32_AckAfterReset == acksPosted <= flagClears

(* ---------------- a burst of sends ---------------- *)

\* the schedule of the burst: the client, woken by a write, gets to its
\* header read only when the host has handled the last request of the burst
\* and has returned from the writeToSharedBuffer call that woke it
BurstReadHeader ==
    /\ Len(submitted) = BackToBackSends
    /\ hpc = "idle"
    /\ ClientReadHeader

\* the host handles BackToBackSends sendToClient requests of SmallLen bytes
\* each, back to back; then the client reads and the host handles its acks
NextBackToBack ==
    \/ HostInit
    \/ HostSendUpTo(SmallPayload, BackToBackSends)
    \/ HostHandleClientMessage
    \/ HostContinue
    \/ HostNotify
    \/ ClientInit
    \/ ClientHandleSharedBuffer
    \/ ClientWaitCall
    \/ ClientWaitTimeout
    \/ BurstReadHeader
    \/ ClientDecode
    \/ ClientReset
    \/ ClientAck

SpecBackToBack == Init /\ [][NextBackToBack]_vars

\* the number of messages of each host write so far: writeToSharedBuffer
\* takes one payload per call
BatchSizes == [i \in 1 .. regionWrites |-> 1]

\* C12: after BackToBackSends = 25 payloads of 100 bytes, once nothing is in
\* flight any more, the host has written three batches of 10, 10 and 5
\* messages, the client has posted three acks and its counter stands at 25.
C12_BurstInThreeBatches ==
    (Len(submitted) = BackToBackSends /\ Quiescent) =>
        /\ BatchSizes = << 10, 10, 5 >>
        /\ acksPosted = 3
        /\ messagesReceived = 25

(* ---------------- oversize payloads ---------------- *)

\* sendToClient requests with payloads within and over the MTU, with the ack
\* handler and the read loop
NextOversize ==
    \/ HostInit
    \/ \E data \in OversizeInputs : HostSendToClient(data)
    \/ HostHandleClientMessage
    \/ HostContinue
    \/ HostNotify
    \/ ClientInit
    \/ ClientHandleSharedBuffer
    \/ ClientWaitCall
    \/ ClientWaitTimeout
    \/ ClientReadHeader
    \/ ClientDecode
    \/ ClientReset
    \/ ClientAck

SpecOversize == Init /\ [][NextOversize]_vars

\* the step is a writeToClient call with a payload over the MTU
OversizeCall ==
    /\ Len(submitted') = Len(submitted) + 1
    /\ Len(submitted'[Len(submitted')]) > HOST_MTU

\* C13: a writeToClient call with a payload of more than HOST_MTU bytes
\* leaves messageQueue, the region and the flag word as they are, whether the
\* flag word is 0 or 1: the payload never enters the queue.
C13_OversizeRejected ==
    [][OversizeCall => UNCHANGED << messageQueue, region, flag >>]_vars

(* ---------------- the outbound queue ---------------- *)

\* the number of sendToClient requests of the run that fills the queue: one
\* payload goes to the region, the others to the queue
QueueSends == MAX_QUEUE_SIZE + 2

\* the host handles sendToClient requests while the client has not read yet
NextQueue ==
    \/ HostInit
    \/ \E data \in Payloads : HostSendUpTo(data, QueueSends)
    \/ HostContinue
    \/ HostNotify

SpecQueue == Init /\ [][NextQueue]_vars

\* C14: the length of messageQueue never exceeds MAX_QUEUE_SIZE: a
\* writeToClient call made while the queue is at capacity leaves it unchanged.
C14_QueueBounded == Len(messageQueue) <= MAX_QUEUE_SIZE

(* ---------------- the reader on arbitrary headers ---------------- *)

\* the values the header fields of a resident region may hold when the read
\* loop finds the flag word at 1: the size at offset 4, the count at offset 8
\* and the four bytes at offset 16 (the first entry's length for the batch
\* reader)
HeaderSizes == { 2, HOST_MTU, HOST_MTU + 1, 3000, MAX_BATCH_BYTES + 1 }

HeaderCounts == { 0, 1, MAX_BATCH_SIZE, MAX_BATCH_SIZE + 1, 600 }

EntryLens == { 0, MTU, MTU + 1 }

HeaderRegion(size, count, len) ==
    SetUint32(SetUint32(SetUint32(ZeroRegion, 4, size), 8, count), 16, len)

\* the read loop is about to wait on a region whose flag word is 1
InitReader ==
    /\ hostRev = 2
    /\ clientRev \in ClientRevs
    /\ sharedArray = TRUE
    /\ messageQueue = << >>
    /\ messageCallback = FALSE
    /\ testRunning = FALSE
    /\ testMessageRate = DefaultRate
    /\ sendTimers = << >>
    /\ stopTimers = 0
    /\ microtasks = << >>
    /\ hpc = "idle"
    /\ starts = 0
    /\ stops = 0
    /\ flag = 1
    /\ \E size \in HeaderSizes, count \in HeaderCounts, len \in EntryLens :
           region = HeaderRegion(size, count, len)
    /\ portToClient = << >>
    /\ portToHost = << >>
    /\ cpc = "wait"
    /\ cTestRunning = FALSE
    /\ messagesReceived = 0
    /\ lastWait = "pending"
    /\ hdrSize = 0
    /\ hdrCount = 0
    /\ processed = << >>
    /\ submitted = << >>
    /\ received = << >>
    /\ receivedIds = << >>
    /\ regionId = 0
    /\ callbackLog = << >>
    /\ regionWrites = 0
    /\ flagStores = 0
    /\ flagResets = 0
    /\ flagClears = 0
    /\ acksPosted = 0
    /\ acksHandled = 0
    /\ ignored = 0
    /\ drainWrites = 0
    /\ hdrGen = 0
    /\ stopInFlight = FALSE
    /\ clientInbox = << >>

NextReader ==
    \/ ClientWaitCall
    \/ ClientWaitTimeout
    \/ ClientReadHeader
    \/ ClientDecode
    \/ ClientReset
    \/ ClientAck
    \/ HostHandleClientMessage

SpecReader == InitReader /\ [][NextReader]_vars

\* the step of the read loop that follows its header reads
AfterHeader == cpc = "decode" /\ cpc' # "decode"

\* the batch is dropped: nothing is delivered or counted, and the flag word
\* is reset, in this step or as the next thing the loop does
Discarded ==
    /\ received' = received
    /\ messagesReceived' = messagesReceived
    /\ flag' = 0 \/ cpc' = "reset"

\* the payload bytes the region can hold
RegionCapacity == BUFFER_SIZE - HOST_HEADER_SIZE

\* C18: when the header declares a payload size larger than the region's
\* capacity, the client discards the batch: it delivers nothing, leaves its
\* counter as it is, resets the flag word to 0 and goes on with its loop.
C18_OversizeHeaderDiscarded ==
    [][(AfterHeader /\ hdrSize > RegionCapacity) => Discarded]_vars

\* the declared message count is more than MAX_BATCH_SIZE, or more entries
\* than the region holds
CountMalformed ==
    \/ hdrCount > MAX_BATCH_SIZE
    \/ DecodeLoop(region, hdrCount).threw

\* C19: when the header declares a message count of more than MAX_BATCH_SIZE
\* entries, or more entries than fit in the region, the batch reader discards
\* the batch, resets the flag word to 0 and goes on with its loop; it never
\* decodes more than MAX_BATCH_SIZE entries of one batch.
C19_BadCountDiscarded ==
    [][(AfterHeader /\ clientRev = 2) =>
          /\ CountMalformed => Discarded
          /\ Len(processed') <= MAX_BATCH_SIZE]_vars

\* a step of the batch reader in an iteration whose header declared zero
\* messages
ZeroBatchStep ==
    /\ clientRev = 2
    /\ cpc \in { "decode", "reset", "ack" }
    /\ hdrCount = 0
    /\ cpc' # cpc

\* the iteration consumes the batch and delivers nothing: after the header
\* reads come the reset of the flag word and one ack, with the list of
\* received messages and the counter as they were
ConsumedEmpty ==
    /\ received' = received
    /\ messagesReceived' = messagesReceived
    /\ cpc = "decode" => cpc' = "reset"
    /\ cpc = "reset" => (flag' = 0 /\ cpc' = "ack")
    /\ cpc = "ack" => /\ portToHost' = Append(portToHost, AckMsg)
                      /\ acksPosted' = acksPosted + 1
                      /\ cpc' = "wait"

ReportedCount == hdrCount

\* C29: the client's counter is the number of messages it decoded and
\* delivered, and the count it reports for a batch is the number of messages
\* it decoded from that batch.
C29_CountsDecoded ==
    clientRev = 2 =>
        /\ messagesReceived = Len(received)
        /\ cpc = "ack" => ReportedCount = Len(processed)

\* the entries of a batch of n entries that starts at offset, each located
\* by the declared lengths of the entries before it: the payload of every
\* entry that lies within the buffer and is at most MTU bytes long
RECURSIVE EntriesAt(_, _, _)
EntriesAt(r, offset, n) ==
    IF n = 0 \/ offset + 4 > BUFFER_SIZE THEN << >>
    ELSE LET len == GetUint32(r, offset)
         IN  (IF len > MTU \/ offset + 4 + len > BUFFER_SIZE
              THEN << >>
              ELSE << CopyOut(r, offset + 4, len) >>)
                 \o EntriesAt(r, offset + 4 + len, n - 1)

\* one of the n entries of the batch at offset declares more than MTU bytes
RECURSIVE HasOversizeEntry(_, _, _)
HasOversizeEntry(r, offset, n) ==
    IF n = 0 \/ offset + 4 > BUFFER_SIZE THEN FALSE
    ELSE LET len == GetUint32(r, offset)
         IN  len > MTU \/ HasOversizeEntry(r, offset + 4 + len, n - 1)

\* C34: when an entry of a batch declares a length over the MTU, the batch
\* reader skips that entry only: the messages it delivers are the other
\* entries of the batch, each read at its own offset, in their order.
C34_SkipsOnlyOversizeEntry ==
    [][(/\ clientRev = 2
        /\ cpc = "decode"
        /\ cpc' = "reset"
        /\ HasOversizeEntry(region, HEADER_SIZE, hdrCount))
          => processed' = EntriesAt(region, HEADER_SIZE, hdrCount)]_vars

(* ---------------- the reverse channel ---------------- *)

\* the payloads of a sendToHost request, and the lists writeBatchToHost may
\* be called with
ReversePayloads == { << 1 >>, << 2 >> }

ReverseBatches == { << << 1 >>, << 2 >> >> }

\* onMessage(callback): the host registers a message callback
HostOnMessage ==
    /\ HostIdle
    /\ ~messageCallback
    /\ messageCallback' = TRUE
    /\ UNCHANGED << revVars, clientInbox, sharedArray, messageQueue, testRunning,
                    testMessageRate, sendTimers, stopTimers, microtasks, hpc,
                    starts, stops, memVars, portToClient, portToHost,
                    clientVars, histVars >>

\* the reverse channel takes one more application message
ReverseRoom == Len(portToHost) + Len(callbackLog) + ignored < MaxReverse

\* a sendToHost request, handled while the client's event loop still runs:
\* writeToHost(data) posts the payload with the tag toHost
ClientSendToHost(data) ==
    /\ cpc = "idle"
    /\ ReverseRoom
    /\ portToHost' = Append(portToHost, [type |-> "toHost", data |-> data])
    /\ UNCHANGED << revVars, clientInbox, hostVars, memVars, portToClient, clientVars,
                    histVars >>

\* writeBatchToHost(messages) of worker-client.ts with a non-empty list,
\* called while the client's event loop still runs: one post with the tag
\* toHostBatch
ClientWriteBatchToHost(messages) ==
    /\ clientRev = 2
    /\ cpc = "idle"
    /\ ReverseRoom
    /\ Len(messages) > 0
    /\ portToHost' = Append(portToHost,
                             [type |-> "toHostBatch", messages |-> messages])
    /\ UNCHANGED << revVars, clientInbox, hostVars, memVars, portToClient, clientVars,
                    histVars >>

NextReverse ==
    \/ HostInit
    \/ HostOnMessage
    \/ ClientInit
    \/ \E data \in ReversePayloads : ClientSendToHost(data)
    \/ \E messages \in ReverseBatches : ClientWriteBatchToHost(messages)
    \/ HostHandleClientMessage

SpecReverse == Init /\ [][NextReverse]_vars

\* the application payloads a message of the port to the host carries
ReverseData(m) ==
    IF m.type = "toHost" THEN << m.data >>
    ELSE IF m.type = "toHostBatch" THEN m.messages
    ELSE << >>

\* C23: every application payload the client posts on the port, as a toHost
\* message or inside a toHostBatch message, is handed to the host's
\* registered message callback once, in the order sent: when the host handles
\* the next message of the port, the callback receives that message's
\* payloads, in their order.
C23_ReverseDelivered ==
    [][(/\ portToHost # << >>
        /\ portToHost' = Tail(portToHost)
        /\ messageCallback)
       => callbackLog' = callbackLog \o ReverseData(Head(portToHost))]_vars

(* ---------------- a repeated init ---------------- *)

\* the regions handed to the client so far: the sharedBuffer messages on the
\* port, and the one the client took when it entered its read loop
RegionsHandedOff ==
    Len(SelectSeq(portToClient, LAMBDA m : m.type = "sharedBuffer"))
        + (IF cpc \in { "noPort", "idle" } THEN 0 ELSE 1)

\* an init message handled by a host that has a region already: the handler
\* allocates a new SharedArrayBuffer, which from now on is the region the
\* host writes, stores 0 to its flag word and posts it to the client
HostReInit ==
    /\ HostIdle
    /\ sharedArray
    /\ RegionsHandedOff < MaxInits
    /\ flag' = 0
    /\ region' = ZeroRegion
    /\ portToClient' = Append(portToClient, [type |-> "sharedBuffer"])
    /\ UNCHANGED << revVars, clientInbox, hostVars, portToHost, clientVars, histVars >>

\* init messages and sendToClient requests at the host, up to the client's
\* entry into its read loop
NextReinit ==
    \/ HostInit
    \/ HostReInit
    \/ \E data \in Payloads : HostSendToClient(data)
    \/ HostContinue
    \/ HostNotify
    \/ ClientInit
    \/ ClientHandleSharedBuffer

SpecReinit == Init /\ [][NextReinit]_vars

\* C25: at most one region is ever allocated and handed to the client,
\* whatever messages the host handles, a repeated init included.
C25_OneRegion == RegionsHandedOff <= 1

(* ---------------- control messages at the client ---------------- *)

ControlTypes == { "startTest", "stopTest" }

\* the main thread posts a control message to the client worker
\* (clientWorker.postMessage({ type: "stopTest" }))
MainPostToClient(type) ==
    /\ Len(clientInbox) < MaxControl
    /\ clientInbox' = Append(clientInbox, type)
    /\ UNCHANGED << revVars, hostVars, memVars, portToClient, portToHost,
                    clientVars, histVars >>

\* the client's message listener runs for the next control message, which
\* takes an event loop that is not inside the read loop: it forwards the
\* message to handleHostMessage, which sets or clears testRunning
ClientHandleControl ==
    /\ cpc \in { "noPort", "idle" }
    /\ clientInbox # << >>
    /\ clientInbox' = Tail(clientInbox)
    /\ IF Head(clientInbox) = "startTest"
       THEN cTestRunning' = TRUE /\ messagesReceived' = 0
       ELSE cTestRunning' = FALSE /\ UNCHANGED messagesReceived
    /\ UNCHANGED << revVars, hostVars, memVars, portToClient, portToHost, cpc,
                    lastWait, hdrSize, hdrCount, processed, histVars >>

\* the read loop on a channel the host sends nothing on: the wait is called,
\* blocks and times out, again and again
ClientIdleLoopStep ==
    \/ ClientWaitCall
    \/ ClientWaitTimeout

\* the handshake, the idle read loop and the control messages of the main
\* thread
NextControl ==
    \/ HostInit
    \/ ClientInit
    \/ \E type \in ControlTypes : MainPostToClient(type)
    \/ ClientHandleControl
    \/ ClientHandleSharedBuffer
    \/ ClientIdleLoopStep

\* every worker keeps running: a task that stays ready on an event loop is
\* run, a timed wait returns and the read loop goes on
FairControl ==
    /\ WF_vars(HostInit)
    /\ WF_vars(ClientInit)
    /\ WF_vars(ClientHandleControl)
    /\ WF_vars(ClientHandleSharedBuffer)
    /\ WF_vars(ClientIdleLoopStep)

SpecControl == Init /\ [][NextControl]_vars /\ FairControl

InReadLoop == cpc \notin { "noPort", "idle" }

\* C27: once the read loop runs, every stop or start message posted to the
\* client is eventually handled by it.
C27_ControlHandled ==
    []((InReadLoop /\ clientInbox = << >>)
          => [](clientInbox # << >> => <>(clientInbox = << >>)))

(* ---------------- draining the queue ---------------- *)

\* the single-message reader, whose layout is the host's
InitDrain == Init /\ clientRev = 1

\* the steps of the single-message read loop
ClientLoopStep ==
    \/ ClientWaitCall
    \/ ClientWaitTimeout
    \/ ClientReadHeader
    \/ ClientDecode
    \/ ClientReset
    \/ ClientAck

\* the steps the host takes without a new request
HostStep ==
    \/ HostHandleClientMessage
    \/ HostContinue
    \/ HostNotify

\* sendToClient requests, the ack handler and the read loop; no test is
\* started or stopped
NextDrain ==
    \/ HostInit
    \/ \E data \in OversizeInputs : HostSendToClient(data)
    \/ HostStep
    \/ ClientInit
    \/ ClientHandleSharedBuffer
    \/ ClientLoopStep

\* the workers keep running: the handshake completes, the host handles the
\* messages of its port and finishes its writes, the client keeps reading
FairDrain ==
    /\ WF_vars(HostInit)
    /\ WF_vars(HostStep)
    /\ WF_vars(ClientInit)
    /\ WF_vars(ClientHandleSharedBuffer)
    /\ WF_vars(ClientLoopStep)

SpecDrain == InitDrain /\ [][NextDrain]_vars /\ FairDrain

\* C31: the queue always drains: while the client keeps reading and acks are
\* delivered, a non-empty queue is eventually emptied into the region.
C31_QueueDrains == (messageQueue # << >>) ~> (messageQueue = << >>)

(* ---------------- the host's channel handler ---------------- *)

\* messages the port may hand to handleClientMessage besides the client's
\* acks: an ack whose ack field is not true, a message with a tag the handler
\* does not know, and a data message that carries an ack field as well
ForeignMessages ==
    { [type |-> "ack", data |-> << >>, ack |-> FALSE],
      [type |-> "other", data |-> << 1 >>, ack |-> TRUE],
      [type |-> "toHost", data |-> << 1 >>, ack |-> TRUE] }

\* the port delivers message m to the host
PortDelivers(m) ==
    /\ ReverseRoom
    /\ portToHost' = Append(portToHost, m)
    /\ UNCHANGED << revVars, clientInbox, hostVars, memVars, portToClient,
                    clientVars, histVars >>

\* two sendToClient requests, the read loop with its acks, and the messages
\* of the port
NextDemux ==
    \/ HostInit
    \/ HostOnMessage
    \/ \E data \in Payloads : HostSendUpTo(data, DemuxSends)
    \/ \E m \in ForeignMessages : PortDelivers(m)
    \/ HostStep
    \/ ClientInit
    \/ ClientHandleSharedBuffer
    \/ ClientLoopStep

SpecDemux == Init /\ [][NextDemux]_vars

\* the step is a run of handleClientMessage for the head of the port
HandlerRuns == portToHost # << >> /\ portToHost' = Tail(portToHost)

\* C33: the handler demultiplexes by tag: an ack never reaches the message
\* callback, a data message never dequeues from messageQueue or writes to the
\* region, and a message with an unknown tag or with an ack field that is not
\* true changes no host state.
C33_StrictDemux ==
    [][HandlerRuns =>
          LET m == Head(portToHost)
          IN  /\ m.type = "ack" => callbackLog' = callbackLog
              /\ m.type = "toHost" =>
                    UNCHANGED << messageQueue, memVars, regionWrites >>
              /\ (m.type \notin { "toHost", "ack" } \/ (m.type = "ack" /\ ~m.ack))
                    => UNCHANGED << hostVars, memVars, callbackLog, regionWrites >>]_vars

\* the handler has run for a data message and for two messages it ignores,
\* and a payload is waiting in the queue of the second host iteration while
\* the flag word is 0 after the client's reset
C33_Witness ==
    /\ hostRev = 2
    /\ messageQueue # << >>
    /\ flag = 0
    /\ flagClears = 1
    /\ callbackLog # << >>
    /\ ignored = 2

(* ---------------- the reader on a resident batch ---------------- *)

\* the read loop is about to wait on a resident region whose entries are
\* empty: the bytes after the header are 0
InitResident == InitReader /\ GetUint32(region, HEADER_SIZE) = 0

\* the read loop keeps running and the host handles the acks of its port
FairReader ==
    /\ WF_vars(ClientLoopStep)
    /\ WF_vars(HostHandleClientMessage)

SpecResident == InitResident /\ [][NextReader]_vars /\ FairReader

\* C35: the reader never gets stuck on a resident batch: whenever the flag
\* word is 1, the client eventually resets it to 0, also when decoding the
\* batch raises an error.
C35_ResidentBatchReset == (flag = 1) ~> (flag = 0)

====
